---- MODULE Spec2Model ----
(***************************************************************************)
(* A model of osunbitdb: the document layer over an ordered transactional  *)
(* key-value engine.  Strings are sequences of code points, so that keys   *)
(* compare as the engine compares their UTF-8 bytes; JSON values are       *)
(* tagged records [t, v]; stored values are the token sequences produced   *)
(* by the JSON encoder.                                                    *)
(***************************************************************************)
EXTENDS Integers, Sequences, FiniteSets, TLC

(* ------------------------------- state --------------------------------- *)

VARIABLES
  store,   \* the engine's committed key-value pairs: key -> bytes
  tx,      \* the transaction handles: handle -> its transaction
  last,    \* the last call made on a handle, with its arguments and result
  calls,   \* how many handle operations have been called
  sum,     \* handle -> the increments of n it has applied, added up
  fac,     \* the facade call in progress
  pg,      \* the pagination loop of a scanning caller, and the build
  pure     \* the update spec of the last update, as its caller wrote it

vars == <<store, tx, last, calls, sum, fac, pg, pure>>

(* ------------------------------ strings -------------------------------- *)

\* ':' separates collection and id in a key: format!("{}:{}", base, id)
Colon == 58
\* '.' separates the segments of a field path: path.split('.')
Dot == 46
\* '\u{10FFFF}', the sentinel appended to a scan's upper bound
MaxChar == 1114111

\* "__op", the discriminator field of an operator payload
OpKey == <<95, 95, 111, 112>>
\* "amount"
AmountKey == <<97, 109, 111, 117, 110, 116>>
\* "values"
ValuesKey == <<118, 97, 108, 117, 101, 115>>
\* "inc"
OpInc == <<105, 110, 99>>
\* "remove"
OpRemove == <<114, 101, 109, 111, 118, 101>>
\* "array_union"
OpArrayUnion == <<97, 114, 114, 97, 121, 95, 117, 110, 105, 111, 110>>
\* "array_remove"
OpArrayRemove == <<97, 114, 114, 97, 121, 95, 114, 101, 109, 111, 118, 101>>
\* "expiryAt"
ExpiryAt == <<101, 120, 112, 105, 114, 121, 65, 116>>
\* "expire"
ExpirePrefix == <<101, 120, 112, 105, 114, 101>>

Min(a, b) == IF a <= b THEN a ELSE b

\* byte-wise (= code-point-wise) lexicographic order of two strings
StrLess(s, t) ==
  \E i \in 1..(Min(Len(s), Len(t)) + 1) :
    /\ \A j \in 1..(i - 1) : s[j] = t[j]
    /\ \/ i > Len(s) /\ i <= Len(t)
       \/ i <= Len(s) /\ i <= Len(t) /\ s[i] < t[i]

StrLeq(s, t) == s = t \/ StrLess(s, t)

\* str::strip_prefix
HasPrefix(s, p) == Len(p) <= Len(s) /\ SubSeq(s, 1, Len(p)) = p

StripPrefix(s, p) == SubSeq(s, Len(p) + 1, Len(s))

\* the least string of a non-empty finite set
MinStr(S) == CHOOSE s \in S : \A t \in S : StrLeq(s, t)

MaxStr(S) == CHOOSE s \in S : \A t \in S : StrLeq(t, s)

RECURSIVE Ascending(_)
\* the strings of S in increasing order
Ascending(S) ==
  IF S = {} THEN <<>> ELSE <<MinStr(S)>> \o Ascending(S \ {MinStr(S)})

RECURSIVE Descending(_)
\* the strings of S in decreasing order
Descending(S) ==
  IF S = {} THEN <<>> ELSE <<MaxStr(S)>> \o Descending(S \ {MaxStr(S)})

\* the first n elements of a sequence
Take(s, n) == SubSeq(s, 1, Min(n, Len(s)))

(* ----------------------------- JSON values ----------------------------- *)

J(t, v) == [t |-> t, v |-> v]

JNull == J("null", 0)
JBool(b) == J("bool", b)
JInt(n) == J("int", n)
\* a number that is not an integer: as_i64() gives None
JFloat(n) == J("float", n)
JStr(s) == J("str", s)
JArr(s) == J("arr", s)
JObj(m) == J("obj", m)

\* Option::None of a lookup
Absent == J("absent", 0)

EmptyMap == <<>>

\* Map::insert
MapInsert(m, k, v) == [x \in (DOMAIN m) \cup {k} |-> IF x = k THEN v ELSE m[x]]

\* Map::remove
MapRemove(m, k) == [x \in (DOMAIN m) \ {k} |-> m[x]]

\* Map::get
MapGet(m, k) == IF k \in DOMAIN m THEN m[k] ELSE Absent

\* the order in which a serde_json Map hands out its keys (its default,
\* BTreeMap-backed form: increasing key order)
MapKeys(m) == Ascending(DOMAIN m)

\* integers wider than the model's own are held in 16-bit limbs
HalfMod == 65536

\* an i64 is four limbs in two's complement, the least significant first;
\* this is the i64 of a number n of the model (below 2^31 in magnitude)
I64Of(n) ==
  << n % HalfMod, (n \div HalfMod) % HalfMod,
     IF n < 0 THEN HalfMod - 1 ELSE 0, IF n < 0 THEN HalfMod - 1 ELSE 0 >>

\* i64::MAX and i64::MIN
I64Max == <<HalfMod - 1, HalfMod - 1, HalfMod - 1, (HalfMod \div 2) - 1>>
I64Min == <<0, 0, 0, HalfMod \div 2>>

\* the sign bit of x
I64Negative(x) == x[4] >= HalfMod \div 2

\* x is a number of the model: its two upper limbs only extend the sign
I64Small(x) ==
  \/ x[3] = 0 /\ x[4] = 0 /\ x[2] < HalfMod \div 2
  \/ x[3] = HalfMod - 1 /\ x[4] = HalfMod - 1 /\ x[2] >= HalfMod \div 2

\* the number of the model that a small x is
I64Num(x) ==
  IF x[2] < HalfMod \div 2 THEN x[2] * HalfMod + x[1]
  ELSE (x[2] - HalfMod) * HalfMod + x[1]

\* json!(x) for an i64 x: a JSON integer is J("int", n) when it is a number
\* of the model and J("i64", limbs) when it is wider
JI64(x) == IF I64Small(x) THEN J("int", I64Num(x)) ELSE J("i64", x)

\* Value::as_i64 is Some
IsI64(v) == v.t \in {"int", "i64"}

\* Value::as_i64 of a JSON integer
AsI64(v) == IF v.t = "int" THEN I64Of(v.v) ELSE v.v

\* Value::get(&str): a member of an object, None on anything else
ValueGet(v, k) == IF v.t = "obj" THEN MapGet(v.v, k) ELSE Absent

\* Value::index(&str), v["k"]: Null when v is no object or has no such key
ValueIndex(v, k) == IF ValueGet(v, k) = Absent THEN JNull ELSE ValueGet(v, k)

RECURSIVE AddLimbs(_, _, _, _)
\* x + y from limb i on, with the carry of the limbs below; the carry out of
\* the last limb is dropped
AddLimbs(x, y, i, carry) ==
  IF i > Len(x) THEN <<>>
  ELSE <<(x[i] + y[i] + carry) % HalfMod>>
       \o AddLimbs(x, y, i + 1, (x[i] + y[i] + carry) \div HalfMod)

\* a + b on i64 where it wraps around (a build without overflow checks)
I64Add(a, b) == AddLimbs(a, b, 1, 0)

\* a + b overflows i64: the operands share a sign that the sum has not
I64AddOverflows(a, b) ==
  I64Negative(a) = I64Negative(b) /\ I64Negative(I64Add(a, b)) # I64Negative(a)

\* the build checks arithmetic overflow (debug profile: `+` panics) or does
\* not (release profile: `+` wraps)
OverflowChecks == pg.overflow_checks

(* --------------------------- path addressing --------------------------- *)

RECURSIVE Split(_)
\* str::split('.'): at least one segment, empty segments kept
Split(s) ==
  IF \A i \in 1..Len(s) : s[i] # Dot
    THEN <<s>>
    ELSE LET i == CHOOSE i \in 1..Len(s) :
                    s[i] = Dot /\ \A j \in 1..(i - 1) : s[j] # Dot
         IN <<SubSeq(s, 1, i - 1)>> \o Split(SubSeq(s, i + 1, Len(s)))

RECURSIVE GetDeepParts(_, _)
GetDeepParts(obj, parts) ==
  IF Len(parts) = 1
    THEN MapGet(obj, parts[1])
    ELSE IF MapGet(obj, parts[1]).t = "obj"
           THEN GetDeepParts(obj[parts[1]].v, Tail(parts))
           ELSE Absent

\* utils::get_deep
get_deep(obj, path) == GetDeepParts(obj, Split(path))

\* the outcome of a call that may panic
Done(m) == [panic |-> FALSE, map |-> m]
Panicked == [panic |-> TRUE, map |-> EmptyMap]

RECURSIVE SetDeepParts(_, _, _)
SetDeepParts(obj, parts, value) ==
  IF Len(parts) = 1
    THEN Done(MapInsert(obj, parts[1], value))
    ELSE LET part == parts[1]
             \* entry(part).or_insert_with(|| Object(Map::new()))
             slot == IF part \in DOMAIN obj THEN obj[part] ELSE JObj(EmptyMap)
         IN IF slot.t # "obj"
              \* as_object_mut() is None: unwrap() panics
              THEN Panicked
              ELSE LET inner == SetDeepParts(slot.v, Tail(parts), value)
                   IN IF inner.panic
                        THEN Panicked
                        ELSE Done(MapInsert(obj, part, JObj(inner.map)))

\* a set that puts a fresh object in place of the intermediate one
set_deep_fresh(obj, path, value) ==
  SetDeepParts(IF Len(Split(path)) = 1 THEN obj ELSE MapRemove(obj, Split(path)[1]),
               Split(path), value)

\* utils::set_deep
set_deep(obj, path, value) == SetDeepParts(obj, Split(path), value)

RECURSIVE RemoveDeepParts(_, _)
RemoveDeepParts(obj, parts) ==
  IF Len(parts) = 1
    THEN MapRemove(obj, parts[1])
    ELSE IF MapGet(obj, parts[1]).t = "obj"
           THEN MapInsert(obj, parts[1],
                          JObj(RemoveDeepParts(obj[parts[1]].v, Tail(parts))))
           ELSE obj

\* a remove that drops the whole first segment of the path
remove_deep_top(obj, path) == MapRemove(obj, Split(path)[1])

\* utils::remove_deep
remove_deep(obj, path) == RemoveDeepParts(obj, Split(path))

(* ----------------------------- JSON codec ------------------------------ *)

\* a token of JSON text: its kind and, for a scalar, its value
Tok(t, v) == [t |-> t, v |-> v]

RECURSIVE Encode(_)
RECURSIVE EncodeMembers(_, _)
RECURSIVE EncodeElements(_)

EncodeMembers(m, keys) ==
  IF keys = <<>> THEN <<>>
  ELSE <<Tok("str", keys[1]), Tok(":", 0)>> \o Encode(m[keys[1]])
       \o (IF Len(keys) > 1 THEN <<Tok(",", 0)>> ELSE <<>>)
       \o EncodeMembers(m, Tail(keys))

EncodeElements(s) ==
  IF s = <<>> THEN <<>>
  ELSE Encode(s[1])
       \o (IF Len(s) > 1 THEN <<Tok(",", 0)>> ELSE <<>>)
       \o EncodeElements(Tail(s))

\* serde_json::to_vec of a Value, as JSON tokens
Encode(v) ==
  CASE v.t = "obj" -> <<Tok("{", 0)>> \o EncodeMembers(v.v, MapKeys(v.v)) \o <<Tok("}", 0)>>
    [] v.t = "arr" -> <<Tok("[", 0)>> \o EncodeElements(v.v) \o <<Tok("]", 0)>>
    [] v.t = "null" -> <<Tok("null", 0)>>
    [] OTHER -> <<Tok(v.t, v.v)>>

\* the bytes of a string written raw (not as JSON text)
RawBytes(s) == <<Tok("raw", s)>>

Parsed(v, next) == [ok |-> TRUE, val |-> v, next |-> next]
ParseError == [ok |-> FALSE, val |-> JNull, next |-> 0]

RECURSIVE ParseValue(_, _)
RECURSIVE ParseMembers(_, _, _)
RECURSIVE ParseElements(_, _, _)

\* the members of an object after '{' or ',': toks[i] starts a key
ParseMembers(toks, i, m) ==
  IF i + 1 > Len(toks) \/ toks[i].t # "str" \/ toks[i + 1].t # ":"
    THEN ParseError
    ELSE LET r == ParseValue(toks, i + 2)
         IN IF ~r.ok \/ r.next > Len(toks) THEN ParseError
            ELSE LET m2 == MapInsert(m, toks[i].v, r.val)
                 IN CASE toks[r.next].t = "}" -> Parsed(JObj(m2), r.next + 1)
                      [] toks[r.next].t = "," -> ParseMembers(toks, r.next + 1, m2)
                      [] OTHER -> ParseError

\* the elements of an array after '[' or ','
ParseElements(toks, i, s) ==
  LET r == ParseValue(toks, i)
  IN IF ~r.ok \/ r.next > Len(toks) THEN ParseError
     ELSE LET s2 == Append(s, r.val)
          IN CASE toks[r.next].t = "]" -> Parsed(JArr(s2), r.next + 1)
               [] toks[r.next].t = "," -> ParseElements(toks, r.next + 1, s2)
               [] OTHER -> ParseError

ParseValue(toks, i) ==
  IF i > Len(toks) THEN ParseError
  ELSE LET k == toks[i].t
       IN CASE k = "{" ->
                 IF i + 1 <= Len(toks) /\ toks[i + 1].t = "}"
                   THEN Parsed(JObj(EmptyMap), i + 2)
                   ELSE ParseMembers(toks, i + 1, EmptyMap)
            [] k = "[" ->
                 IF i + 1 <= Len(toks) /\ toks[i + 1].t = "]"
                   THEN Parsed(JArr(<<>>), i + 2)
                   ELSE ParseElements(toks, i + 1, <<>>)
            [] k = "null" -> Parsed(JNull, i + 1)
            [] k \in {"bool", "int", "i64", "float", "str"} -> Parsed(J(k, toks[i].v), i + 1)
            [] OTHER -> ParseError

\* the parse r of all n bytes is a value only when nothing follows it
DecodeEnd(r, n) ==
  IF r.ok /\ r.next = n + 1 THEN [ok |-> TRUE, val |-> r.val]
  ELSE [ok |-> FALSE, val |-> JNull]

\* serde_json::from_slice: one value, and nothing after it
Decode(bytes) == DecodeEnd(ParseValue(bytes, 1), Len(bytes))

(* ------------------------------ key codec ------------------------------ *)

\* a key that leaves the collection out
key_id_only(base, id) == id

\* TransactionHandle::key
key(base, id) == base \o <<Colon>> \o id

(* ------------------------- the merge of update ------------------------- *)

\* a union that appends every incoming value
UnionInto_append(existing, newVals) == existing \o newVals

\* a retain that drops only the first of the values to remove
Retain_first(existing, remVals) ==
  IF \E i \in 1..Len(existing) : \E j \in 1..Len(remVals) : existing[i] = remVals[j]
    THEN LET i == CHOOSE i \in 1..Len(existing) :
                    /\ \E j \in 1..Len(remVals) : existing[i] = remVals[j]
                    /\ \A k \in 1..(i - 1) :
                         \A j \in 1..Len(remVals) : existing[k] # remVals[j]
         IN SubSeq(existing, 1, i - 1) \o SubSeq(existing, i + 1, Len(existing))
    ELSE existing

RECURSIVE UnionInto(_, _)
\* for nv in new_vals { if !existing.contains(&nv) { existing.push(nv) } }
UnionInto(existing, newVals) ==
  IF newVals = <<>> THEN existing
  ELSE UnionInto(IF \E i \in 1..Len(existing) : existing[i] = newVals[1]
                   THEN existing
                   ELSE Append(existing, newVals[1]),
                 Tail(newVals))

\* existing.retain(|item| !rem_vals.contains(item))
Retain(existing, remVals) ==
  SelectSeq(existing, LAMBDA item : \A i \in 1..Len(remVals) : remVals[i] # item)

\* v["values"].as_array().cloned().unwrap_or_default()
AsArrayOrEmpty(v) == IF v.t = "arr" THEN v.v ELSE <<>>

\* op.as_str().unwrap_or("")
OpName(op) == IF op.t = "str" THEN op.v ELSE <<>>

\* v["amount"].as_i64().unwrap_or(0)
Delta(amount) == IF IsI64(amount) THEN AsI64(amount) ELSE I64Of(0)

\* get_deep(obj, k).and_then(|val| val.as_i64()), 0 when None
CurrentVal(existing) == IF IsI64(existing) THEN AsI64(existing) ELSE I64Of(0)

\* `current_val + delta` panics: it overflows in a build that checks
IncPanics(v, existing) ==
  /\ OverflowChecks
  /\ I64AddOverflows(CurrentVal(existing), Delta(ValueIndex(v, AmountKey)))

\* the value an entry (k, v) of the update sets at k, `existing` being what
\* get_deep finds there
NewValue(v, name, existing) ==
  CASE name = OpInc ->
         JI64(I64Add(CurrentVal(existing), Delta(ValueIndex(v, AmountKey))))
    [] name = OpArrayUnion ->
         JArr(UnionInto(AsArrayOrEmpty(existing),
                        AsArrayOrEmpty(ValueIndex(v, ValuesKey))))
    [] name = OpArrayRemove ->
         JArr(Retain(AsArrayOrEmpty(existing),
                     AsArrayOrEmpty(ValueIndex(v, ValuesKey))))
    [] OTHER -> v

\* one turn of the loop over the update's fields: obj after (k, v)
ApplyField(obj, k, v) ==
  IF ValueGet(v, OpKey).t = "absent"
    THEN set_deep(obj, k, v)
    ELSE IF OpName(ValueGet(v, OpKey)) = OpRemove
           THEN Done(remove_deep(obj, k))
           ELSE IF OpName(ValueGet(v, OpKey)) = OpInc /\ IncPanics(v, get_deep(obj, k))
             THEN Panicked
             ELSE set_deep(obj, k, NewValue(v, OpName(ValueGet(v, OpKey)), get_deep(obj, k)))

RECURSIVE ApplyFields(_, _, _)
RECURSIVE ApplyRest(_, _, _)

\* the loop goes on from the outcome r of a turn
ApplyRest(r, new_fields, keys) ==
  IF r.panic THEN Panicked ELSE ApplyFields(r.map, new_fields, keys)

\* for (k, v) in new_fields { ... }
ApplyFields(obj, new_fields, keys) ==
  IF keys = <<>> THEN Done(obj)
  ELSE ApplyRest(ApplyField(obj, keys[1], new_fields[keys[1]]), new_fields, Tail(keys))

\* the document after the loop's outcome r
Merged(data, r) ==
  IF r.panic THEN [kind |-> "panic", data |-> data]
  ELSE [kind |-> "ok", data |-> JObj(r.map)]

\* the in-memory part of update: what becomes of the loaded document `data`
\* under `fields`.  kind is "ok" (data is to be persisted), "InvalidUpdate"
\* or "panic".
Merge(data, fields) ==
  IF data.t = "obj"
    THEN IF fields.t = "obj"
           THEN Merged(data, ApplyFields(data.v, fields.v, MapKeys(fields.v)))
           ELSE [kind |-> "InvalidUpdate", data |-> data]
    ELSE [kind |-> "ok", data |-> data]

(* ------------------------ the transaction engine ----------------------- *)

\* a value of the engine, or none
SomeBytes(b) == [some |-> TRUE, bytes |-> b]
NoBytes == [some |-> FALSE, bytes |-> <<>>]

\* a buffered mutation
PutOf(b) == [del |-> FALSE, bytes |-> b]
DelOf == [del |-> TRUE, bytes |-> <<>>]

\* a transaction that was never begun
NoTxn == [st |-> "unused", snap |-> <<>>, buf |-> <<>>, stale |-> {}, exp |-> <<>>]

\* TransactionClient::begin_optimistic: a snapshot of the committed store
begin_optimistic(s) == [NoTxn EXCEPT !.st = "open", !.snap = s]

\* a read that goes to the snapshot past the transaction's own writes
TxnGetSnapshotOnly(t, k) ==
  IF k \in DOMAIN t.snap THEN SomeBytes(t.snap[k]) ELSE NoBytes

\* Transaction::get: the transaction's own buffered write, else its snapshot
TxnGet(t, k) ==
  IF k \in DOMAIN t.buf
    THEN IF t.buf[k].del THEN NoBytes ELSE SomeBytes(t.buf[k].bytes)
    ELSE IF k \in DOMAIN t.snap THEN SomeBytes(t.snap[k]) ELSE NoBytes

\* Transaction::put
TxnPut(t, k, b) == [t EXCEPT !.buf = MapInsert(t.buf, k, PutOf(b))]

\* Transaction::delete
TxnDelete(t, k) == [t EXCEPT !.buf = MapInsert(t.buf, k, DelOf)]

\* the committed store with a transaction's buffered mutations applied
ApplyBuffer(s, buf) ==
  [k \in ((DOMAIN s) \cup {k \in DOMAIN buf : ~buf[k].del})
         \ {k \in DOMAIN buf : buf[k].del}
     |-> IF k \in DOMAIN buf THEN buf[k].bytes ELSE s[k]]

\* a commit that does not look for conflicts
TxnCommitUnchecked(t, s) == [ok |-> TRUE, store |-> ApplyBuffer(s, t.buf)]

\* Transaction::commit: fails when a key of the write set was committed by
\* another transaction after this one began
TxnCommit(t, s) ==
  IF t.stale \cap DOMAIN t.buf # {}
    THEN [ok |-> FALSE, store |-> s]
    ELSE [ok |-> TRUE, store |-> ApplyBuffer(s, t.buf)]

\* Transaction::rollback: the buffer is discarded
TxnRollback(t, s) == s

(* ------------------------ the transaction handle ----------------------- *)

\* the result of a handle (or facade) call
Res(kind, val) == [kind |-> kind, val |-> val]

\* TransactionHandle::add
add(t, collection, id, value) == TxnPut(t, key(collection, id), Encode(value))

\* TransactionHandle::get: Ok(Some(json)), Ok(None) or a decoding error
Decoded(d) == IF d.ok THEN Res("ok", d.val) ELSE Res("SerdeJsonError", Absent)

Loaded(bytes_opt) ==
  IF bytes_opt.some THEN Decoded(Decode(bytes_opt.bytes)) ELSE Res("ok", Absent)

get(t, collection, id) == Loaded(TxnGet(t, key(collection, id)))

\* TransactionHandle::delete
delete(t, collection, id) == TxnDelete(t, key(collection, id))

\* the key of the expiry index: format!("expire:{}:{}", expiry_str, id)
expire_key(expiry_str, id) ==
  ExpirePrefix \o <<Colon>> \o expiry_str \o <<Colon>> \o id

\* an update that writes no TTL index entry
UpdateExpiry_skip(t1, id, data, expiry_val) == [t |-> t1, kind |-> "ok", data |-> data]

\* update after its put: the TTL index entry, when expiryAt is a string
UpdateExpiry(t1, id, data, expiry_val) ==
  IF expiry_val.t = "str"
    THEN [t |-> TxnPut(t1, expire_key(expiry_val.v, id), RawBytes(id)),
          kind |-> "ok", data |-> data]
    ELSE [t |-> t1, kind |-> "ok", data |-> data]

\* update from its put on: t1 holds the put; data.as_object().expect(...)
\* panics on a document that is no object
UpdatePersisted(t1, id, data) ==
  IF data.t # "obj" THEN [t |-> t1, kind |-> "panic", data |-> data]
  ELSE UpdateExpiry(t1, id, data, get_deep(data.v, ExpiryAt))

\* update after the merge m
UpdateMerged(t, collection, id, m) ==
  IF m.kind # "ok" THEN [t |-> t, kind |-> m.kind, data |-> Absent]
  ELSE UpdatePersisted(add(t, collection, id, m.data), id, m.data)

\* an update that starts from null when nothing is stored
UpdateLoaded_null(t, collection, id, fields, got) ==
  IF got.kind # "ok" THEN [t |-> t, kind |-> got.kind, data |-> Absent]
  ELSE UpdateMerged(t, collection, id,
                    Merge(IF got.val = Absent THEN JNull ELSE got.val, fields))

\* update after its read: unwrap_or(JsonValue::Object(Map::new()))
UpdateLoaded(t, collection, id, fields, got) ==
  IF got.kind # "ok" THEN [t |-> t, kind |-> got.kind, data |-> Absent]
  ELSE UpdateMerged(t, collection, id,
                    Merge(IF got.val = Absent THEN JObj(EmptyMap) ELSE got.val, fields))

\* TransactionHandle::update: the handle after the call, the call's result and
\* the document it persisted
update(t, collection, id, fields) ==
  UpdateLoaded(t, collection, id, fields, get(t, collection, id))

RECURSIVE AddAll(_, _, _, _)
\* for (id, value) in map { self.add(collection, id, value) }
AddAll(t, collection, map, ids) ==
  IF ids = <<>> THEN t
  ELSE AddAll(add(t, collection, ids[1], map[ids[1]]), collection, map, Tail(ids))

\* TransactionHandle::batch_add
batch_add(t, collection, items_json) ==
  IF items_json.t = "obj"
    THEN [t |-> AddAll(t, collection, items_json.v, MapKeys(items_json.v)), kind |-> "ok"]
    ELSE [t |-> t, kind |-> "InvalidUpdate"]

RECURSIVE GetAll(_, _, _, _)
RECURSIVE GotOne(_, _, _, _, _)

\* batch_get after self.get(collection, id) returned g for the first id
GotOne(t, collection, arr, out, g) ==
  IF g.kind # "ok" THEN Res(g.kind, Absent)
  ELSE GetAll(t, collection, Tail(arr),
              IF g.val = Absent THEN out ELSE MapInsert(out, arr[1].v, g.val))

\* for id_val in arr { if let Some(id) = id_val.as_str() { ... } }
GetAll(t, collection, arr, out) ==
  IF arr = <<>> THEN Res("ok", JObj(out))
  ELSE IF arr[1].t # "str" THEN GetAll(t, collection, Tail(arr), out)
  ELSE GotOne(t, collection, arr, out, get(t, collection, arr[1].v))

\* TransactionHandle::batch_get
batch_get(t, collection, ids_json) ==
  IF ids_json.t = "arr"
    THEN GetAll(t, collection, ids_json.v, EmptyMap)
    ELSE Res("InvalidUpdate", Absent)

RECURSIVE DeleteAll(_, _, _)
\* for id_val in arr { if let Some(id) = id_val.as_str() { self.delete(..) } }
DeleteAll(t, collection, arr) ==
  IF arr = <<>> THEN t
  ELSE DeleteAll(IF arr[1].t = "str" THEN delete(t, collection, arr[1].v) ELSE t,
                 collection, Tail(arr))

\* TransactionHandle::batch_delete
batch_delete(t, collection, ids_json) ==
  IF ids_json.t = "arr"
    THEN [t |-> DeleteAll(t, collection, ids_json.v), kind |-> "ok"]
    ELSE [t |-> t, kind |-> "InvalidUpdate"]

\* a commit that applies only the least key of the write set
commit_partial(t, s) ==
  IF t.stale \cap DOMAIN t.buf # {}
    THEN [ok |-> FALSE, store |-> s]
    ELSE [ok |-> TRUE,
          store |-> ApplyBuffer(s, [k \in {k \in DOMAIN t.buf : k = MinStr(DOMAIN t.buf)}
                                      |-> t.buf[k]])]

\* the keys a transaction sees: its snapshot under its own buffered writes
TxnKeys(t) ==
  ((DOMAIN t.snap) \cup {k \in DOMAIN t.buf : ~t.buf[k].del})
    \ {k \in DOMAIN t.buf : t.buf[k].del}

\* a u32 is held as two 16-bit halves: its value is hi * 2^16 + lo
U32(hi, lo) == [hi |-> hi, lo |-> lo]

\* the u32 of a number below 2^31
U32Of(n) == U32(n \div HalfMod, n % HalfMod)

\* u32::MAX
U32Max == U32(HalfMod - 1, HalfMod - 1)

\* x + 1 in u32 arithmetic that wraps around
U32Succ(x) ==
  IF x.lo + 1 < HalfMod THEN U32(x.hi, x.lo + 1)
  ELSE U32((x.hi + 1) % HalfMod, 0)

\* the first n elements of s, n a u32 (s is shorter than 2^16)
TakeU32(s, n) == IF n.hi = 0 THEN Take(s, n.lo) ELSE s

\* Transaction::scan_reverse over lower..=upper: at most n keys, greatest first
TxnScanReverse(t, lower, upper, n) ==
  TakeU32(Descending({k \in TxnKeys(t) : StrLeq(lower, k) /\ StrLeq(k, upper)}), n)

\* Transaction::scan over lower..: at most n keys, least first
TxnScan(t, lower, n) ==
  TakeU32(Ascending({k \in TxnKeys(t) : StrLeq(lower, k)}), n)

\* k.strip_prefix(&prefix).unwrap_or(&k)
DocId(k, prefix) == IF HasPrefix(k, prefix) THEN StripPrefix(k, prefix) ELSE k

\* serde_json::from_slice(..).unwrap_or(JsonValue::Null)
DecodedOrNull(d) == IF d.ok THEN d.val ELSE JNull

\* the upper end of the reverse scan
start_key(collection, cursor) ==
  IF cursor = <<>>
    THEN collection \o <<Colon, MaxChar>>
    ELSE collection \o <<Colon>> \o cursor \o <<MaxChar>>

\* `limit + 1` overflows: a panic in a build with overflow checks
FetchOverflows(limit) == limit = U32Max

\* (limit + 1) as u32, where it does not panic
FetchLimit(limit) == U32Succ(limit)

RECURSIVE ScanLoop(_, _, _, _, _, _)
\* for kv in kvs { ... }: the ids inserted into `out`, in the order of their
\* insertion, `count` being the entries collected so far
ScanLoop(kvs, prefix, cursor, limit, count, ids) ==
  IF kvs = <<>> THEN ids
  ELSE IF cursor # <<>> /\ DocId(kvs[1], prefix) = cursor
    THEN ScanLoop(Tail(kvs), prefix, cursor, limit, count, ids)
    ELSE IF U32Of(count + 1) = limit
      THEN Append(ids, DocId(kvs[1], prefix))
      ELSE ScanLoop(Tail(kvs), prefix, cursor, limit, count + 1,
                    Append(ids, DocId(kvs[1], prefix)))

\* TransactionHandle::scan: the ids of the returned mapping in the order
\* they were inserted into it
scan(t, collection, limit, cursor) ==
  ScanLoop(TxnScanReverse(t, collection \o <<Colon>>, start_key(collection, cursor),
                          FetchLimit(limit)),
           collection \o <<Colon>>, cursor, limit, 0, <<>>)

\* the value the returned mapping holds for a returned id
ScanValue(t, collection, id) ==
  DecodedOrNull(Decode(TxnGet(t, key(collection, id)).bytes))

\* the mapping a scan returns: doc_id -> decoded value, for the fetched keys
ScanOut(t, kvs, prefix) ==
  JObj([id \in {DocId(kvs[i], prefix) : i \in 1..Len(kvs)} |->
          LET k == CHOOSE k \in {kvs[i] : i \in 1..Len(kvs)} : DocId(k, prefix) = id
          IN DecodedOrNull(Decode(TxnGet(t, k).bytes))])

\* the scan of lib.rs, which the facade calls: the first `limit` keys from
\* "collection:" on, as a mapping
scan_forward(t, collection, limit) ==
  ScanOut(t, TxnScan(t, key(collection, <<>>), limit), collection \o <<Colon>>)

\* TransactionHandle::commit
commit(t, s) == TxnCommit(t, s)

\* a rollback that applies the buffer it should discard
rollback_applies(t, s) == ApplyBuffer(s, t.buf)

\* TransactionHandle::rollback
rollback(t, s) == TxnRollback(t, s)

(* ------------------------------ fixtures -------------------------------- *)

\* how many transaction handles are ever opened
NumHandles == 2
\* how many handle operations (add, get, delete, update, batch_add) are called
MaxCalls == 2

Handles == 1..NumHandles

\* "users"
Users == <<117, 115, 101, 114, 115>>
\* "notes"
Notes == <<110, 111, 116, 101, 115>>
\* "u1"
U1 == <<117, 49>>
\* "u2"
U2 == <<117, 50>>
\* "n"
FieldN == <<110>>

\* json!({"__op": "inc", "amount": amount})
increment(amount) == JObj((OpKey :> JStr(OpInc)) @@ (AmountKey :> JInt(amount)))

\* json!({"__op": "remove"})
remove == JObj(OpKey :> JStr(OpRemove))

\* json!({"__op": "array_union", "values": values})
array_union(values) == JObj((OpKey :> JStr(OpArrayUnion)) @@ (ValuesKey :> values))

\* {"n": n}
DocN(n) == JObj(FieldN :> JInt(n))

\* the (collection, id) pairs the callers address
Targets == {<<Users, U1>>, <<Notes, U1>>}

\* the documents given to add: an object and a document that is no object
AddDocs == {DocN(100), JInt(7)}

\* the amounts of the increments
Deltas == {50, -20}

\* the update specs given to update: an increment and a spec that is no object
UpdateSpecs == {JObj(FieldN :> increment(50)), JArr(<<JInt(1)>>)}

\* the inputs given to batch_add: two items and an input that is no object
BatchInputs == {JObj((U1 :> DocN(1)) @@ (U2 :> DocN(2))), JStr(U1)}

\* the stores a run starts from: empty, an object document, a document that
\* is no object
InitStores ==
  { EmptyMap,
    key(Users, U1) :> Encode(DocN(100)),
    key(Users, U1) :> Encode(JInt(7)) }

NoCall == [h |-> 0, op |-> "none", coll |-> <<>>, id |-> <<>>, arg |-> JNull,
           kind |-> "none", val |-> Absent]

Call(h, op, coll, id, arg, kind, val) ==
  [h |-> h, op |-> op, coll |-> coll, id |-> id, arg |-> arg, kind |-> kind, val |-> val]

FacIdle == [pc |-> "idle", op |-> "none", coll |-> <<>>, id |-> <<>>, arg |-> JNull,
            t |-> NoTxn, kind |-> "none", val |-> Absent, ended |-> 0]
PgIdle == [pc |-> "idle", limit |-> U32Of(0), cursor |-> <<>>, seen |-> <<>>,
           preserve_order |-> TRUE, overflow_checks |-> TRUE]
PureIdle == [pc |-> "idle", doc |-> JNull, fields |-> JNull, kind |-> "none",
             out |-> JNull]

Init ==
  /\ store \in InitStores
  /\ tx = [h \in Handles |-> NoTxn]
  /\ last = NoCall
  /\ calls = 0
  /\ sum = [h \in Handles |-> 0]
  /\ fac = FacIdle
  /\ pg = PgIdle
  /\ pure = PureIdle

(* ------------------------------ the calls ------------------------------ *)

IsOpen(h) == tx[h].st = "open"

CanCall(h) == IsOpen(h) /\ calls < MaxCalls

\* what a handle opened now would get for (collection, id)
FreshGet(collection, id) == get(begin_optimistic(store), collection, id)

\* OsunbitDB::transaction: the next unused handle is opened
Begin(h) ==
  /\ tx[h].st = "unused"
  /\ \A g \in Handles : g < h => tx[g].st # "unused"
  /\ tx' = [tx EXCEPT ![h] = begin_optimistic(store)]
  /\ UNCHANGED <<store, last, calls, sum, fac, pg, pure>>

HandleAdd(h, collection, id, value) ==
  /\ CanCall(h)
  /\ tx' = [tx EXCEPT ![h] = [add(tx[h], collection, id, value)
                                EXCEPT !.exp = MapInsert(@, <<collection, id>>, value)]]
  /\ last' = Call(h, "add", collection, id, value, "ok", Absent)
  /\ calls' = calls + 1
  /\ UNCHANGED <<store, sum, fac, pg, pure>>

Returned(h, op, collection, id, arg, r) ==
  Call(h, op, collection, id, arg, r.kind, r.val)

HandleGet(h, collection, id) ==
  /\ CanCall(h)
  /\ last' = Returned(h, "get", collection, id, JNull, get(tx[h], collection, id))
  /\ calls' = calls + 1
  /\ UNCHANGED <<store, tx, sum, fac, pg, pure>>

HandleDelete(h, collection, id) ==
  /\ CanCall(h)
  /\ tx' = [tx EXCEPT ![h] = [delete(tx[h], collection, id)
                                EXCEPT !.exp = MapInsert(@, <<collection, id>>, Absent)]]
  /\ last' = Call(h, "delete", collection, id, JNull, "ok", Absent)
  /\ calls' = calls + 1
  /\ UNCHANGED <<store, sum, fac, pg, pure>>

\* the amount by which an update spec of the form {"n": increment(d)}
\* increments n; 0 for any other spec
IncrementOfN(fields) ==
  IF \E d \in Deltas : fields = JObj(FieldN :> increment(d))
    THEN (CHOOSE d \in Deltas : fields = JObj(FieldN :> increment(d)))
    ELSE 0

\* a panic unwinds the caller: the handle is dropped, neither committed nor
\* rolled back
UpdateReturns(h, collection, id, fields, r) ==
  /\ tx' = [tx EXCEPT ![h] =
             [r.t EXCEPT !.st = IF r.kind = "panic" THEN "panicked" ELSE @,
                         !.exp = IF r.kind = "ok"
                                   THEN MapInsert(@, <<collection, id>>, r.data)
                                   ELSE @]]
  /\ last' = Call(h, "update", collection, id, fields, r.kind, r.data)
  /\ sum' = [sum EXCEPT ![h] = IF r.kind = "ok" THEN @ + IncrementOfN(fields) ELSE @]

HandleUpdate(h, collection, id, fields) ==
  /\ CanCall(h)
  /\ UpdateReturns(h, collection, id, fields, update(tx[h], collection, id, fields))
  /\ calls' = calls + 1
  /\ UNCHANGED <<store, fac, pg, pure>>

\* what the caller of batch_add expects (collection, id) to hold afterwards
ExpectItems(exp, collection, items) ==
  [p \in (DOMAIN exp) \cup {<<collection, i>> : i \in DOMAIN items}
     |-> IF p[1] = collection /\ p[2] \in DOMAIN items THEN items[p[2]] ELSE exp[p]]

BatchAddReturns(h, collection, items_json, r) ==
  /\ tx' = [tx EXCEPT ![h] =
             [r.t EXCEPT !.exp = IF r.kind = "ok"
                                   THEN ExpectItems(@, collection, items_json.v)
                                   ELSE @]]
  /\ last' = Call(h, "batch_add", collection, <<>>, items_json, r.kind, Absent)

HandleBatchAdd(h, collection, items_json) ==
  /\ CanCall(h)
  /\ BatchAddReturns(h, collection, items_json, batch_add(tx[h], collection, items_json))
  /\ calls' = calls + 1
  /\ UNCHANGED <<store, sum, fac, pg, pure>>

\* every other open transaction now holds a snapshot older than these keys
MarkStale(txs, h, keys) ==
  [g \in DOMAIN txs |->
     IF g # h /\ txs[g].st = "open"
       THEN [txs[g] EXCEPT !.stale = @ \cup keys]
       ELSE txs[g]]

CommitReturns(h, r) ==
  /\ store' = r.store
  /\ tx' = IF r.ok
             THEN [MarkStale(tx, h, DOMAIN tx[h].buf) EXCEPT ![h].st = "committed"]
             ELSE [tx EXCEPT ![h].st = "failed"]
  /\ last' = Call(h, "commit", <<>>, <<>>, JNull, IF r.ok THEN "ok" ELSE "TiKV", Absent)

HandleCommit(h) ==
  /\ IsOpen(h)
  /\ CommitReturns(h, commit(tx[h], store))
  /\ UNCHANGED <<calls, sum, fac, pg, pure>>

HandleRollback(h) ==
  /\ IsOpen(h)
  /\ store' = rollback(tx[h], store)
  /\ tx' = [tx EXCEPT ![h].st = "rolledback"]
  /\ last' = Call(h, "rollback", <<>>, <<>>, JNull, "ok", Absent)
  /\ UNCHANGED <<calls, sum, fac, pg, pure>>

Next ==
  \/ \E h \in Handles : Begin(h)
  \/ \E h \in Handles, p \in Targets, v \in AddDocs : HandleAdd(h, p[1], p[2], v)
  \/ \E h \in Handles, p \in Targets : HandleGet(h, p[1], p[2])
  \/ \E h \in Handles, p \in Targets : HandleDelete(h, p[1], p[2])
  \/ \E h \in Handles, p \in Targets, f \in UpdateSpecs : HandleUpdate(h, p[1], p[2], f)
  \/ \E h \in Handles, c \in {Users}, b \in BatchInputs : HandleBatchAdd(h, c, b)
  \/ \E h \in Handles : HandleCommit(h)
  \/ \E h \in Handles : HandleRollback(h)

Spec == Init /\ [][Next]_vars

(* ------------------------------ the facade ----------------------------- *)

\* the limit the facade's callers scan with
FacadeLimit == 2

\* OsunbitDB::add, get, delete, update, scan up to `self.transaction().await?`
DbCall(op, collection, id, arg) ==
  /\ fac.pc = "idle"
  /\ calls < MaxCalls
  /\ fac' = [pc |-> "opened", op |-> op, coll |-> collection, id |-> id, arg |-> arg,
             t |-> begin_optimistic(store), kind |-> "none", val |-> Absent,
             ended |-> 0]
  /\ calls' = calls + 1
  /\ UNCHANGED <<store, tx, last, sum, pg, pure>>

\* the handle operation of a facade call: the handle afterwards and the result
Unit(r) == [t |-> r.t, kind |-> r.kind, val |-> Absent]

Value(t, r) == [t |-> t, kind |-> r.kind, val |-> r.val]

DbOperation(f) ==
  CASE f.op = "add" -> [t |-> add(f.t, f.coll, f.id, f.arg), kind |-> "ok", val |-> Absent]
    [] f.op = "get" -> Value(f.t, get(f.t, f.coll, f.id))
    [] f.op = "delete" -> [t |-> delete(f.t, f.coll, f.id), kind |-> "ok", val |-> Absent]
    [] f.op = "update" -> Unit(update(f.t, f.coll, f.id, f.arg))
    [] f.op = "scan" ->
         [t |-> f.t, kind |-> "ok", val |-> scan_forward(f.t, f.coll, U32Of(f.arg.v))]

\* `tx.<op>(..).await?`: an error returns from the facade call at once, and
\* the handle is dropped as it is
DbRan(r) ==
  fac' = [fac EXCEPT !.t = r.t, !.kind = r.kind, !.val = r.val,
                     !.pc = CASE r.kind = "ok" -> "called"
                              [] r.kind = "panic" -> "panicked"
                              [] OTHER -> "returned"]

DbRun ==
  /\ fac.pc = "opened"
  /\ DbRan(DbOperation(fac))
  /\ UNCHANGED <<store, tx, last, calls, sum, pg, pure>>

DbCommitted(r) ==
  /\ store' = r.store
  /\ fac' = [fac EXCEPT !.pc = "returned", !.ended = @ + 1,
                        !.kind = IF r.ok THEN "ok" ELSE "TiKV",
                        !.t = [@ EXCEPT !.st = IF r.ok THEN "committed" ELSE "failed"]]

\* `tx.commit().await?` of add, delete and update
DbCommit ==
  /\ fac.pc = "called"
  /\ fac.op \in {"add", "delete", "update"}
  /\ DbCommitted(commit(fac.t, store))
  /\ UNCHANGED <<tx, last, calls, sum, pg, pure>>

\* `tx.rollback().await?` of get and scan
DbRollback ==
  /\ fac.pc = "called"
  /\ fac.op \in {"get", "scan"}
  /\ store' = rollback(fac.t, store)
  /\ fac' = [fac EXCEPT !.pc = "returned", !.ended = @ + 1,
                        !.t = [@ EXCEPT !.st = "rolledback"]]
  /\ UNCHANGED <<tx, last, calls, sum, pg, pure>>

\* the caller goes on to its next facade call
DbNext ==
  /\ fac.pc \in {"returned", "panicked"}
  /\ fac' = FacIdle
  /\ UNCHANGED <<store, tx, last, calls, sum, pg, pure>>

NextFacade ==
  \/ \E p \in Targets, v \in AddDocs : DbCall("add", p[1], p[2], v)
  \/ \E p \in Targets : DbCall("get", p[1], p[2], JNull)
  \/ \E p \in Targets : DbCall("delete", p[1], p[2], JNull)
  \/ \E p \in Targets, f \in UpdateSpecs : DbCall("update", p[1], p[2], f)
  \/ \E p \in Targets : DbCall("scan", p[1], <<>>, JInt(FacadeLimit))
  \/ DbRun
  \/ DbCommit
  \/ DbRollback
  \/ DbNext

SpecFacade == Init /\ [][NextFacade]_vars

\* C5: every handle a facade call opens is terminated exactly once before
\* the call returns, by commit for add, delete and update and by rollback for
\* get and scan, also when the handle operation itself returned an error.
C5_FacadeTerminatesHandle ==
  fac.pc = "returned" =>
    /\ fac.ended = 1
    /\ fac.op \in {"add", "delete", "update"} => fac.t.st \in {"committed", "failed"}
    /\ fac.op \in {"get", "scan"} => fac.t.st = "rolledback"

\* C5 on the calls whose handle operation succeeded: there the handle is
\* terminated exactly once, by commit or by rollback as the claim says.
C5_WhenOperationSucceeds ==
  fac.pc = "returned" /\ fac.kind \in {"ok", "TiKV"} =>
    /\ fac.ended = 1
    /\ fac.op \in {"add", "delete", "update"} => fac.t.st \in {"committed", "failed"}
    /\ fac.op \in {"get", "scan"} => fac.t.st = "rolledback"

(* ----------------------------- pagination ------------------------------ *)

\* the greatest limit a caller pages with
MaxLimit == 2
\* how many ids a caller collects before it gives up
MaxSeen == 6

\* "u1", "u10", "u2", "u3"
ScanIds == {<<117, 49>>, <<117, 49, 48>>, <<117, 50>>, <<117, 51>>}

Range(f) == {f[i] : i \in DOMAIN f}

\* the order in which the returned mapping hands out its ids: the order of
\* insertion when serde_json is built with preserve_order, increasing id
\* order otherwise
PageOrder(ids, preserve_order) ==
  IF preserve_order THEN ids ELSE Ascending(Range(ids))

\* a collection of documents, the caller's limit and the build of the map
InitScan ==
  /\ \E ids \in SUBSET ScanIds :
       store = [k \in {key(Users, i) : i \in ids} |-> Encode(DocN(1))]
  /\ \E limit \in 1..MaxLimit, o \in BOOLEAN :
       pg = [pc |-> "paging", limit |-> U32Of(limit), cursor |-> <<>>, seen |-> <<>>,
             preserve_order |-> o, overflow_checks |-> TRUE]
  /\ tx = [h \in Handles |-> NoTxn]
  /\ last = NoCall
  /\ calls = 0
  /\ sum = [h \in Handles |-> 0]
  /\ fac = FacIdle
  /\ pure = PureIdle

\* the caller's loop: the page is appended to what was seen and its last id
\* becomes the next cursor; an empty page ends the loop
Paged(page) ==
  pg' = IF page = <<>>
          THEN [pg EXCEPT !.pc = "done"]
          ELSE [pg EXCEPT !.seen = @ \o page, !.cursor = page[Len(page)]]

PgScan(h) ==
  /\ IsOpen(h)
  /\ pg.pc = "paging"
  /\ Len(pg.seen) < MaxSeen
  /\ Paged(PageOrder(scan(tx[h], Users, pg.limit, pg.cursor), pg.preserve_order))
  /\ UNCHANGED <<store, tx, last, calls, sum, fac, pure>>

NextScan ==
  \/ \E h \in Handles : Begin(h)
  \/ \E h \in Handles : PgScan(h)
  \/ \E h \in Handles : HandleRollback(h)

SpecScan == InitScan /\ [][NextScan]_vars

\* the ids stored in the scanned collection
StoredIds == {StripPrefix(k, Users \o <<Colon>>) : k \in DOMAIN store}

\* C4: paging with any limit >= 1 from the empty cursor, feeding back the
\* last returned id of each page, enumerates every id of the collection
\* exactly once in strictly decreasing order (checked in the build whose
\* mapping keeps the scan's own order).
C4_PaginationCoverage ==
  pg.preserve_order =>
    /\ \A i \in 1..(Len(pg.seen) - 1) : StrLess(pg.seen[i + 1], pg.seen[i])
    /\ pg.pc = "done" => Range(pg.seen) = StoredIds

\* no stored id is a proper prefix of another stored id
PrefixFree == \A i, j \in StoredIds : i # j => ~HasPrefix(j, i)

\* C4 on the collections whose ids are prefix-free: there the
\* pages are strictly decreasing and cover the collection.
C4_OnPrefixFreeIds ==
  pg.preserve_order /\ PrefixFree =>
    /\ \A i \in 1..(Len(pg.seen) - 1) : StrLess(pg.seen[i + 1], pg.seen[i])
    /\ pg.pc = "done" => Range(pg.seen) = StoredIds

(* --------------------------- batch operations -------------------------- *)

\* the inputs given to batch_get and batch_delete: two ids, an array with an
\* element that is no string, an input that is no array
BatchIdInputs ==
  { JArr(<<JStr(U1), JStr(U2)>>), JArr(<<JStr(U1), JInt(5)>>), JStr(U1) }

HandleBatchGet(h, collection, ids_json) ==
  /\ CanCall(h)
  /\ last' = Returned(h, "batch_get", collection, <<>>, ids_json,
                       batch_get(tx[h], collection, ids_json))
  /\ calls' = calls + 1
  /\ UNCHANGED <<store, tx, sum, fac, pg, pure>>

BatchDeleteReturns(h, collection, ids_json, r) ==
  /\ tx' = [tx EXCEPT ![h] = r.t]
  /\ last' = Call(h, "batch_delete", collection, <<>>, ids_json, r.kind, Absent)

HandleBatchDelete(h, collection, ids_json) ==
  /\ CanCall(h)
  /\ BatchDeleteReturns(h, collection, ids_json, batch_delete(tx[h], collection, ids_json))
  /\ calls' = calls + 1
  /\ UNCHANGED <<store, sum, fac, pg, pure>>

NextBatch ==
  \/ \E h \in Handles : Begin(h)
  \/ \E h \in Handles, items \in BatchInputs : HandleBatchAdd(h, Users, items)
  \/ \E h \in Handles, ids \in BatchIdInputs : HandleBatchGet(h, Users, ids)
  \/ \E h \in Handles, ids \in BatchIdInputs : HandleBatchDelete(h, Users, ids)
  \/ \E h \in Handles : HandleCommit(h)

SpecBatch == Init /\ [][NextBatch]_vars

\* v is an array of strings only
IsIdArray(v) == v.t = "arr" /\ \A i \in 1..Len(v.v) : v.v[i].t = "str"

\* this step is a batch call whose input is not of the form its operation
\* requires
BatchWithBadInput ==
  /\ calls' = calls + 1
  /\ \/ last'.op \in {"batch_get", "batch_delete"} /\ ~IsIdArray(last'.arg)
     \/ last'.op = "batch_add" /\ last'.arg.t # "obj"

\* the call failed with InvalidUpdate and the handle holds what it held
RejectedUntouched ==
  /\ last'.kind = "InvalidUpdate"
  /\ tx'[last'.h] = tx[last'.h]

\* C18: batch_get and batch_delete fail with InvalidUpdate, reading and
\* deleting nothing, whenever their input is not an array of id strings only
\* (an array with an element that is no string included), and batch_add fails
\* with InvalidUpdate, writing nothing, whenever its input is no object.
C18_BatchInputValidation ==
  [][BatchWithBadInput => RejectedUntouched]_vars

\* C18 on the inputs that are no array (batch_get, batch_delete) or no object
\* (batch_add): these are rejected and nothing is touched.
C18_OnWrongKindOfInput ==
  [][BatchWithBadInput /\ last'.arg.t # "arr" => RejectedUntouched]_vars

(* ----------------------------- single pages ---------------------------- *)

\* the limits given to scan: 0, 1, 2 and the largest u32
ScanLimits == {U32Of(0), U32Of(1), U32Of(2), U32Max}

\* the cursors given to scan: none, or an id (stored or not)
ScanCursors == {<<>>} \cup ScanIds

\* a collection of documents and the build: the order of the map and whether
\* arithmetic overflow is checked
InitPage ==
  /\ \E ids \in SUBSET ScanIds :
       store = [k \in {key(Users, i) : i \in ids} |-> Encode(DocN(1))]
  /\ \E o \in BOOLEAN, c \in BOOLEAN :
       pg = [PgIdle EXCEPT !.preserve_order = o, !.overflow_checks = c]
  /\ tx = [h \in Handles |-> NoTxn]
  /\ last = NoCall
  /\ calls = 0
  /\ sum = [h \in Handles |-> 0]
  /\ fac = FacIdle
  /\ pure = PureIdle

\* scan returned the ids `page`, in the order of the returned mapping
ScanReturns(h, limit, cursor, page) ==
  /\ last' = Call(h, "scan", Users, cursor, limit, "ok", page)
  /\ UNCHANGED tx

\* scan panicked: the handle is dropped, neither committed nor rolled back
ScanPanics(h, limit, cursor) ==
  /\ last' = Call(h, "scan", Users, cursor, limit, "panic", <<>>)
  /\ tx' = [tx EXCEPT ![h].st = "panicked"]

HandleScan(h, limit, cursor) ==
  /\ CanCall(h)
  /\ IF pg.overflow_checks /\ FetchOverflows(limit)
       THEN ScanPanics(h, limit, cursor)
       ELSE ScanReturns(h, limit, cursor,
                        PageOrder(scan(tx[h], Users, limit, cursor), pg.preserve_order))
  /\ calls' = calls + 1
  /\ UNCHANGED <<store, sum, fac, pg, pure>>

NextPage ==
  \/ \E h \in Handles : Begin(h)
  \/ \E h \in Handles, limit \in ScanLimits, cursor \in ScanCursors :
       HandleScan(h, limit, cursor)
  \/ \E h \in Handles : HandleRollback(h)

SpecPage == InitPage /\ [][NextPage]_vars

\* the stored ids a scan with this cursor may return: all of them without a
\* cursor, those below the cursor otherwise
Eligible(cursor) ==
  IF cursor = <<>> THEN StoredIds ELSE {i \in StoredIds : StrLess(i, cursor)}

\* n, a number below 2^16, is the lesser of the u32 limit and n
AtMostLimit(limit, n) == IF limit.hi = 0 THEN Min(limit.lo, n) ELSE n

\* C15: for every limit, 0 and the largest u32 included, and every cursor,
\* scan returns at most limit entries, and exactly as many as the lesser of
\* limit and the number of eligible ids.
C15_ScanPageSize ==
  last.op = "scan" =>
    /\ last.kind = "ok"
    /\ Len(last.val) = AtMostLimit(last.arg, Cardinality(Eligible(last.id)))

\* no stored id has the cursor as a proper prefix
CursorPrefixFree(cursor) ==
  cursor = <<>> \/ \A i \in StoredIds : i # cursor => ~HasPrefix(i, cursor)

\* C15 on the limits from 1 to below the largest u32, when no stored id has
\* the cursor as a proper prefix: there the page has the size claimed.
C15_OnLimitsInRange ==
  /\ last.op = "scan"
  /\ last.arg \notin {U32Of(0), U32Max}
  /\ CursorPrefixFree(last.id)
  => /\ last.kind = "ok"
     /\ Len(last.val) = AtMostLimit(last.arg, Cardinality(Eligible(last.id)))

\* every returned id is below the cursor, and no stored id below the cursor
\* that was left out is greater than a returned one
LargestBelow(page, cursor) ==
  /\ \A i \in Range(page) : StrLess(i, cursor)
  /\ \A i \in Range(page), j \in Eligible(cursor) \ Range(page) : StrLess(j, i)

\* C16: for every non-empty cursor c, every id scan returns is strictly below
\* c (neither c nor an id sorting after it, such as one that has c as a
\* proper prefix, is returned) and the returned ids are the largest below c.
C16_CursorExclusive ==
  last.op = "scan" /\ last.kind = "ok" /\ last.id # <<>> =>
    LargestBelow(last.val, last.id)

\* C16 when no stored id has the cursor as a proper prefix.
C16_OnPrefixFreeCursor ==
  last.op = "scan" /\ last.kind = "ok" /\ last.id # <<>>
    /\ CursorPrefixFree(last.id) =>
    LargestBelow(last.val, last.id)

\* the ids of the page are strictly decreasing
Decreasing(page) == \A i \in 1..(Len(page) - 1) : StrLess(page[i + 1], page[i])

\* C17: the mapping scan returns, iterated in its own order, lists the ids
\* largest first, so that the last entry of a page is its smallest id.
C17_ScanResultOrder ==
  last.op = "scan" /\ last.kind = "ok" => Decreasing(last.val)

\* C17 in the build whose mapping keeps the order of insertion.
C17_WithPreserveOrder ==
  last.op = "scan" /\ last.kind = "ok" /\ pg.preserve_order => Decreasing(last.val)

(* ------------- concurrent increments of one stored integer ------------- *)

\* the integer the counter document users/u1 starts with
StartN == 100

InitOcc ==
  /\ store = (key(Users, U1) :> Encode(DocN(StartN)))
  /\ tx = [h \in Handles |-> NoTxn]
  /\ last = NoCall
  /\ calls = 0
  /\ sum = [h \in Handles |-> 0]
  /\ fac = FacIdle
  /\ pg = PgIdle
  /\ pure = PureIdle

NextOcc ==
  \/ \E h \in Handles : Begin(h)
  \/ \E h \in Handles, d \in Deltas :
       HandleUpdate(h, Users, U1, JObj(FieldN :> increment(d)))
  \/ \E h \in Handles : HandleCommit(h)
  \/ \E h \in Handles : HandleRollback(h)

SpecOcc == InitOcc /\ [][NextOcc]_vars

RECURSIVE SumOf(_, _)
\* f[h] added up over the handles h of S
SumOf(f, S) ==
  IF S = {} THEN 0
  ELSE LET h == CHOOSE h \in S : TRUE IN f[h] + SumOf(f, S \ {h})

Committed == {h \in Handles : tx[h].st = "committed"}

\* C3: no lost update.  Whatever handles incremented n of users/u1
\* concurrently, the stored integer is the initial value plus the deltas of
\* exactly the handles whose commit succeeded; a handle whose commit met a
\* conflict got an error, stays failed and contributes nothing.
C3_NoLostUpdate ==
  /\ FreshGet(Users, U1) = Res("ok", DocN(StartN + SumOf(sum, Committed)))
  /\ last.op = "commit" =>
       (last.kind = "ok" <=> tx[last.h].st = "committed")
       /\ (last.kind = "TiKV" <=> tx[last.h].st = "failed")

\* C3's case: two handles incremented concurrently; the commit of one
\* succeeded, the commit of the other met the conflict and returned an error.
C3_Witness ==
  \E h, g \in Handles :
    /\ tx[h].st = "committed" /\ tx[g].st = "failed"
    /\ sum[h] # 0 /\ sum[g] # 0
    /\ last = Call(g, "commit", <<>>, <<>>, JNull, "TiKV", Absent)
    /\ FreshGet(Users, U1) = Res("ok", DocN(StartN + sum[h]))

\* the value of n in the snapshot handle h began with
BaseN(h) == get(begin_optimistic(tx[h].snap), Users, U1).val.v[FieldN].v

\* C6: sequential updates on one handle compose.  A get on an open handle
\* returns the document as left by the handle's own earlier updates (the
\* snapshot's n plus all its increments), and its commit stores that value.
C6_ReadYourOwnWrites ==
  /\ \A h \in Handles :
       tx[h].st = "open" =>
         get(tx[h], Users, U1) = Res("ok", DocN(BaseN(h) + sum[h]))
  /\ last.op = "commit" /\ last.kind = "ok" /\ sum[last.h] # 0 =>
       FreshGet(Users, U1) = Res("ok", DocN(BaseN(last.h) + sum[last.h]))

\* C6's case: 100, then +50 and -20 on one handle, committed: 130 is stored.
C6_Witness ==
  /\ last.op = "commit" /\ last.kind = "ok"
  /\ sum[last.h] = 30
  /\ tx[last.h].exp[<<Users, U1>>] = DocN(130)
  /\ FreshGet(Users, U1) = Res("ok", DocN(130))

(* ------------------- properties of the transaction handle --------------- *)

\* the (collection, id) pairs a run can write
Written == Targets \cup {<<Users, U1>>, <<Users, U2>>}

\* handle h is consumed by a rollback in this step
RollsBack(h) == tx[h].st = "open" /\ tx'[h].st = "rolledback"

\* handle h is consumed by a successful commit in this step
Commits(h) == tx[h].st = "open" /\ tx'[h].st = "committed"

\* C1: a handle that calls update (and any other add, delete or batch
\* operation) and then rollback leaves every stored document as it was when
\* the handle began: unless another handle committed in between, a handle
\* opened after the rollback gets, for every (collection, id), what the
\* rolled-back handle's own snapshot held.
C1_RollbackIsolation ==
  [][\A h \in Handles :
       RollsBack(h) /\ tx[h].stale = {} =>
         /\ store' = tx[h].snap
         /\ \A p \in Written :
              FreshGet(p[1], p[2])' = get(begin_optimistic(tx[h].snap), p[1], p[2])]_vars

\* C1's case: a handle incremented n of users/u1 from 100 to 150 in its
\* buffer, rolled back, and a fresh handle still gets 100.
C1_Witness ==
  \E h \in Handles :
    /\ tx[h].st = "rolledback"
    /\ tx[h].stale = {}
    /\ <<Users, U1>> \in DOMAIN tx[h].exp
    /\ tx[h].exp[<<Users, U1>>] = DocN(150)
    /\ FreshGet(Users, U1) = Res("ok", DocN(100))

\* C2: the writes issued on one handle become visible to other handles
\* together, in the one step of a successful commit: the store changes only
\* in such a step, after it a fresh handle gets every document the handle
\* wrote, every key outside the handle's write set is untouched, and a handle
\* that stays open keeps the snapshot it began with (it sees all of another
\* handle's writes or none).
C2_GroupAtomicity ==
  [][/\ store' # store =>
          \E h \in Handles :
            /\ Commits(h)
            /\ \A p \in DOMAIN tx[h].exp :
                 FreshGet(p[1], p[2])' = Res("ok", tx[h].exp[p])
            /\ \A k \in ((DOMAIN store) \cup (DOMAIN store')) \ (DOMAIN tx[h].buf) :
                 k \in DOMAIN store /\ k \in DOMAIN store' /\ store'[k] = store[k]
     /\ \A g \in Handles :
          /\ tx[g].st = "open" /\ tx'[g].st = "open" => tx'[g].snap = tx[g].snap
          /\ tx[g].st = "unused" /\ tx'[g].st = "open" => tx'[g].snap = store]_vars

\* C2's case: one handle ran batch_add of two items into users and an update
\* in notes, committed, and all three documents are visible.
C2_Witness ==
  \E h \in Handles :
    /\ tx[h].st = "committed"
    /\ DOMAIN tx[h].exp = {<<Users, U1>>, <<Users, U2>>, <<Notes, U1>>}
    /\ tx[h].exp[<<Notes, U1>>] = DocN(50)
    /\ FreshGet(Users, U1) = Res("ok", DocN(1))
    /\ FreshGet(Users, U2) = Res("ok", DocN(2))
    /\ FreshGet(Notes, U1) = Res("ok", DocN(50))

\* this step is a call of update with a spec that is no JSON object
UpdateWithNonObjectSpec ==
  calls' = calls + 1 /\ last'.op = "update" /\ last'.arg.t # "obj"

\* C7: update with a spec that is not a JSON object fails with InvalidUpdate
\* and leaves the stored document and the handle's buffered writes unchanged,
\* whatever is stored at (collection, id): nothing, an object or a document
\* that is no object.
C7_InvalidUpdateSpec ==
  [][UpdateWithNonObjectSpec =>
       /\ last'.kind = "InvalidUpdate"
       /\ tx'[last'.h].buf = tx[last'.h].buf
       /\ store' = store]_vars

\* C7 on the documents that are objects or absent: there the update fails
\* with InvalidUpdate and changes nothing.
C7_OnObjectOrAbsent ==
  [][UpdateWithNonObjectSpec
       /\ get(tx[last'.h], last'.coll, last'.id).val.t \in {"obj", "absent"} =>
       /\ last'.kind = "InvalidUpdate"
       /\ tx'[last'.h].buf = tx[last'.h].buf
       /\ store' = store]_vars

\* C8: add(collection, id, D) followed by get(collection, id) returns D: on
\* the same handle a get returns what the handle last wrote there (a later
\* add replaces an earlier one), and right after a successful commit a handle
\* opened then gets every document the committed handle wrote.
C8_RoundTrip ==
  /\ last.op = "get" /\ <<last.coll, last.id>> \in DOMAIN tx[last.h].exp =>
       last.kind = "ok" /\ last.val = tx[last.h].exp[<<last.coll, last.id>>]
  /\ last.op = "commit" /\ last.kind = "ok" =>
       \A p \in DOMAIN tx[last.h].exp :
         FreshGet(p[1], p[2]) = Res("ok", tx[last.h].exp[p])

\* C8's case: a handle added the document 7 and then {"n": 100} at users/u1
\* and committed; a fresh handle gets {"n": 100}.
C8_Witness ==
  /\ last.op = "commit" /\ last.kind = "ok"
  /\ <<Users, U1>> \in DOMAIN tx[last.h].exp
  /\ tx[last.h].exp[<<Users, U1>>] = DocN(100)
  /\ tx[last.h].snap = (key(Users, U1) :> Encode(JInt(7)))
  /\ FreshGet(Users, U1) = Res("ok", DocN(100))

(* ------------------- updates of one field of a document ---------------- *)

\* "a", "a.b", "a.c", "counter"
PathA == <<97>>
PathAB == <<97, Dot, 98>>
PathAC == <<97, Dot, 99>>
Counter == <<99, 111, 117, 110, 116, 101, 114>>

\* the paths the update specs address
MergePaths == {PathA, PathAB, Counter}

\* the paths whose values are looked at
ReadPaths == MergePaths \cup {PathAC, FieldN}

\* json!({"__op": "array_remove", "values": values})
array_remove(values) == JObj((OpKey :> JStr(OpArrayRemove)) @@ (ValuesKey :> values))

\* increments: an integer amount, no amount, an amount that is no number
IncEntries ==
  { increment(5),
    JObj(OpKey :> JStr(OpInc)),
    JObj((OpKey :> JStr(OpInc)) @@ (AmountKey :> JStr(U1))) }

\* what a spec gives for a path: a literal, an increment, the other operators
\* and an operator the code does not know
MergeEntries ==
  IncEntries \cup
  { JInt(9), remove, array_union(JArr(<<JInt(1)>>)), array_remove(JArr(<<JInt(1)>>)),
    JObj(OpKey :> JStr(U2)) }

\* {"a": {"b": 1, "c": 2}, "n": 100}
DocNested ==
  JObj((PathA :> JObj((<<98>> :> JInt(1)) @@ (<<99>> :> JInt(2))))
       @@ (FieldN :> JInt(100)))

\* {"a": 5, "n": "u1", "counter": [1, 2]}
DocFlat ==
  JObj((PathA :> JInt(5)) @@ (FieldN :> JStr(U1))
       @@ (Counter :> JArr(<<JInt(1), JInt(2)>>)))

\* the stored documents: none, an empty object, nested and flat objects
MergeStores ==
  {EmptyMap} \cup
  {key(Users, U1) :> Encode(d) : d \in {JObj(EmptyMap), DocNested, DocFlat}}

\* a spec with two entries: {"a.b": 9, "counter": increment(5)}
TwoFields == JObj((PathAB :> JInt(9)) @@ (Counter :> increment(5)))

InitMerge ==
  /\ store \in MergeStores
  /\ tx = [h \in Handles |-> NoTxn]
  /\ last = NoCall
  /\ calls = 0
  /\ sum = [h \in Handles |-> 0]
  /\ fac = FacIdle
  /\ pg = PgIdle
  /\ pure = PureIdle

NextMerge ==
  \/ \E h \in Handles : Begin(h)
  \/ \E h \in Handles, p \in MergePaths, v \in MergeEntries :
       HandleUpdate(h, Users, U1, JObj(p :> v))
  \/ \E h \in Handles : HandleUpdate(h, Users, U1, TwoFields)
  \/ \E h \in Handles : HandleCommit(h)

SpecMerge == InitMerge /\ [][NextMerge]_vars

\* the document a handle has at users/u1, the empty object when it has none
DocOf(t) ==
  IF get(t, Users, U1).val = Absent THEN JObj(EmptyMap) ELSE get(t, Users, U1).val

\* this step is an update of users/u1 whose spec has one entry
UpdatesOnePath ==
  /\ calls' = calls + 1
  /\ last'.op = "update"
  /\ last'.coll = Users /\ last'.id = U1
  /\ last'.arg.t = "obj" /\ Cardinality(DOMAIN last'.arg.v) = 1

\* the path and the entry of a spec with one entry
PathOf(fields) == CHOOSE p \in DOMAIN fields.v : TRUE
EntryOf(fields) == fields.v[PathOf(fields)]

\* v is an increment operator
IsIncrement(v) == v.t = "obj" /\ OpKey \in DOMAIN v.v /\ v.v[OpKey] = JStr(OpInc)

\* the integer at p in doc, 0 when p is absent there or holds no integer
CurrentAt(doc, p) ==
  IF get_deep(doc.v, p).t = "int" THEN get_deep(doc.v, p).v ELSE 0

\* the integer amount of an increment, 0 when it has none or it is no number
AmountOf(v) ==
  IF AmountKey \in DOMAIN v.v /\ v.v[AmountKey].t = "int" THEN v.v[AmountKey].v ELSE 0

\* the update succeeded and the document `after` holds the integer n at p
StoresAt(after, p, n) ==
  /\ last'.kind = "ok"
  /\ after.t = "obj"
  /\ get_deep(after.v, p) = JInt(n)

\* the increment of p by v took `before` to `after`
Incremented(before, after, p, v) ==
  StoresAt(after, p, CurrentAt(before, p) + AmountOf(v))

\* C9: on an object document (or none), update({p: increment(d)}) stores at
\* p the integer current + d, current being the integer at p before (0 when
\* p is absent or holds no integer) and d the operator's integer amount (0
\* when it is absent or no number).
C9_IncrementSemantics ==
  [][UpdatesOnePath /\ IsIncrement(EntryOf(last'.arg)) =>
       Incremented(DocOf(tx[last'.h]), DocOf(tx'[last'.h]),
                   PathOf(last'.arg), EntryOf(last'.arg))]_vars

\* every proper prefix of p is absent from doc or holds an object there
Writable(doc, p) ==
  \A k \in 1..(Len(Split(p)) - 1) :
    GetDeepParts(doc.v, SubSeq(Split(p), 1, k)).t \in {"absent", "obj"}

\* the increment of p by v took `before` to `after`, if p is writable
IncrementedIfWritable(before, after, p, v) ==
  Writable(before, p) => Incremented(before, after, p, v)

\* C9 on the paths none of whose proper prefixes holds a value that is no
\* object: there the increment stores current + d.
C9_OnWritablePaths ==
  [][UpdatesOnePath /\ IsIncrement(EntryOf(last'.arg)) =>
       IncrementedIfWritable(DocOf(tx[last'.h]), DocOf(tx'[last'.h]),
                             PathOf(last'.arg), EntryOf(last'.arg))]_vars

\* neither path is the other nor a prefix of it, segment by segment
Unrelated(p, q) ==
  /\ ~HasPrefix(Split(p), Split(q))
  /\ ~HasPrefix(Split(q), Split(p))

\* the documents agree at every path that is unrelated to p
SameElsewhere(before, after, p) ==
  \A q \in ReadPaths :
    Unrelated(p, q) => get_deep(after.v, q) = get_deep(before.v, q)

\* C10: an update whose spec addresses p, by a literal or by any operator,
\* leaves the value at every path q unchanged that is neither p, nor a prefix
\* of p, nor an extension of p; siblings of a nested target included.
C10_UnaffectedFieldsPersist ==
  [][UpdatesOnePath =>
       SameElsewhere(DocOf(tx[last'.h]), DocOf(tx'[last'.h]), PathOf(last'.arg))]_vars

\* C10's case: an update of a.b succeeded on the nested document and changed
\* a.b, and its sibling a.c and the top-level n still hold 2 and 100.
C10_Witness ==
  /\ last.op = "update" /\ last.kind = "ok"
  /\ PathAB \in DOMAIN last.arg.v
  /\ tx[last.h].snap = (key(Users, U1) :> Encode(DocNested))
  /\ get_deep(DocOf(tx[last.h]).v, PathAB) # JInt(1)
  /\ get_deep(DocOf(tx[last.h]).v, PathAC) = JInt(2)
  /\ get_deep(DocOf(tx[last.h]).v, FieldN) = JInt(100)

(* ------------------------- the remove operator ------------------------- *)

\* v is a remove operator
IsRemove(v) == v.t = "obj" /\ OpKey \in DOMAIN v.v /\ v.v[OpKey] = JStr(OpRemove)

\* this step is an update with the spec {p: remove()} of a handle that has an
\* object document at users/u1
RemovesPath ==
  /\ UpdatesOnePath
  /\ IsRemove(EntryOf(last'.arg))
  /\ get(tx[last'.h], Users, U1).val.t = "obj"

\* the remove of p took the handle t with document `before` to the handle t1
\* with document `after`: nothing is at p afterwards, and a document that had
\* nothing at p is the same afterwards, and so are its bytes
Removed(t, before, t1, after, p) ==
  /\ last'.kind = "ok"
  /\ after.t = "obj"
  /\ get_deep(after.v, p).t = "absent"
  /\ get_deep(before.v, p).t = "absent" =>
       /\ after = before
       /\ TxnGet(t1, key(Users, U1)) = TxnGet(t, key(Users, U1))

\* C11: update({p: remove()}) on an object document deletes the field at p
\* when it exists, so that a following get shows nothing at p; when p does
\* not exist (its final segment is missing, or an intermediate segment is
\* missing or no object) the document after the update equals the one before.
C11_RemoveOperator ==
  [][RemovesPath =>
       Removed(tx[last'.h], DocOf(tx[last'.h]), tx'[last'.h], DocOf(tx'[last'.h]),
               PathOf(last'.arg))]_vars

\* C11's case: a.b was removed from the nested document, a.c is still there.
C11_Witness ==
  /\ last.op = "update" /\ last.kind = "ok"
  /\ last.arg = JObj(PathAB :> remove)
  /\ tx[last.h].snap = (key(Users, U1) :> Encode(DocNested))
  /\ get(tx[last.h], Users, U1).val =
       JObj((PathA :> JObj(<<99>> :> JInt(2))) @@ (FieldN :> JInt(100)))

(* ------------------------- the array operators ------------------------- *)

\* "tags"
Tags == <<116, 97, 103, 115>>

\* {"tags": v}
DocTags(v) == JObj(Tags :> v)

\* [n1, n2, ...] as a JSON array of integers
Ints(ns) == JArr([i \in 1..Len(ns) |-> JInt(ns[i])])

\* the stored documents: none, tags an array, an array with a repeated
\* element, a value that is no array
ArrayStores ==
  {EmptyMap} \cup
  {key(Users, U1) :> Encode(DocTags(v)) :
     v \in {Ints(<<1, 2>>), Ints(<<1, 2, 1>>), JInt(5)}}

\* the array operators given for tags
ArrayEntries ==
  { array_union(Ints(<<2, 3>>)), array_union(Ints(<<3, 3, 1>>)),
    array_remove(Ints(<<1>>)), array_remove(Ints(<<2, 3>>)) }

InitArrays ==
  /\ store \in ArrayStores
  /\ tx = [h \in Handles |-> NoTxn]
  /\ last = NoCall
  /\ calls = 0
  /\ sum = [h \in Handles |-> 0]
  /\ fac = FacIdle
  /\ pg = PgIdle
  /\ pure = PureIdle

NextArrays ==
  \/ \E h \in Handles : Begin(h)
  \/ \E h \in Handles, v \in ArrayEntries : HandleUpdate(h, Users, U1, DocTags(v))
  \/ \E h \in Handles : HandleCommit(h)

SpecArrays == InitArrays /\ [][NextArrays]_vars

\* v is the operator named `name`
IsOperator(v, name) == v.t = "obj" /\ OpKey \in DOMAIN v.v /\ v.v[OpKey] = JStr(name)

\* the array at p in doc, the empty array when p is absent or holds no array
ExistingAt(doc, p) ==
  IF get_deep(doc.v, p).t = "arr" THEN get_deep(doc.v, p).v ELSE <<>>

\* the positions of incoming whose element is neither in existing nor at an
\* earlier position of incoming
NewAt(existing, incoming) ==
  {i \in 1..Len(incoming) :
     /\ \A j \in 1..Len(existing) : existing[j] # incoming[i]
     /\ \A j \in 1..(i - 1) : incoming[j] # incoming[i]}

RECURSIVE Pick(_, _)
\* the elements of s at the positions idx, in the order of s
Pick(s, idx) ==
  IF idx = {} THEN <<>>
  ELSE LET i == CHOOSE i \in idx : \A j \in idx : i <= j
       IN <<s[i]>> \o Pick(s, idx \ {i})

\* existing, then the elements of incoming not already present, in their order
UnionOf(existing, incoming) == existing \o Pick(incoming, NewAt(existing, incoming))

\* the update succeeded and `after` holds the array arr at p
StoresArray(after, p, arr) ==
  /\ last'.kind = "ok"
  /\ after.t = "obj"
  /\ get_deep(after.v, p) = JArr(arr)

\* this step repeats the successful update the same handle made just before
RepeatsUpdate ==
  /\ last.op = "update" /\ last.kind = "ok"
  /\ last'.h = last.h /\ last'.coll = last.coll /\ last'.id = last.id
  /\ last'.arg = last.arg

WithoutAll(existing, removeVals) ==
  Pick(existing, {i \in 1..Len(existing) :
                    \A j \in 1..Len(removeVals) : removeVals[j] # existing[i]})

UpdatesAbsent ==
  /\ calls' = calls + 1
  /\ last'.op = "update"
  /\ last'.coll = Users /\ last'.id = U1
  /\ get(tx[last'.h], Users, U1) = Res("ok", Absent)

\* this step is the successful commit of a handle that wrote users/u1
CommitsDoc ==
  /\ last'.op = "commit" /\ last'.kind = "ok"
  /\ key(Users, U1) \in DOMAIN tx[last'.h].buf

\* what applying the update spec to the document doc gives
AppliedTo(doc, fields) == Merge(doc, fields).data

\* C14: update on a (collection, id) that holds nothing starts from the empty
\* object: the handle then has the document made of exactly the fields the
\* spec produces on the empty object, and once committed that document is
\* what is stored.
C14_AutoCreate ==
  [][/\ UpdatesAbsent =>
          /\ last'.kind = "ok"
          /\ get(tx'[last'.h], Users, U1) =
               Res("ok", AppliedTo(JObj(EmptyMap), last'.arg))
     /\ CommitsDoc =>
          get(begin_optimistic(store'), Users, U1) = get(tx[last'.h], Users, U1)]_vars

\* C14's case: on an empty store a handle updated users/u1 with
\* {"a.b": 9, "counter": increment(5)} and committed; the stored document is
\* {"a": {"b": 9}, "counter": 5}.
C14_Witness ==
  /\ last.op = "commit" /\ last.kind = "ok"
  /\ calls = 1
  /\ tx[last.h].snap = EmptyMap
  /\ FreshGet(Users, U1) =
       Res("ok", JObj((PathA :> JObj(<<98>> :> JInt(9))) @@ (Counter :> JInt(5))))

(* ----------------------------- the TTL index --------------------------- *)

\* "t1", an expiry time
Expiry1 == <<116, 49>>

\* the update specs: expiryAt set to a string, set to a number, removed, and
\* another field set
TtlSpecs ==
  { JObj(ExpiryAt :> JStr(Expiry1)), JObj(ExpiryAt :> JInt(7)),
    JObj(ExpiryAt :> remove), JObj(FieldN :> JInt(1)) }

\* the stored documents: none, one with a string expiryAt
TtlStores ==
  { EmptyMap, key(Users, U1) :> Encode(JObj(ExpiryAt :> JStr(Expiry1))) }

InitTtl ==
  /\ store \in TtlStores
  /\ tx = [h \in Handles |-> NoTxn]
  /\ last = NoCall
  /\ calls = 0
  /\ sum = [h \in Handles |-> 0]
  /\ fac = FacIdle
  /\ pg = PgIdle
  /\ pure = PureIdle

NextTtl ==
  \/ \E h \in Handles : Begin(h)
  \/ \E h \in Handles, f \in TtlSpecs : HandleUpdate(h, Users, U1, f)
  \/ \E h \in Handles : HandleCommit(h)
  \/ \E h \in Handles : HandleRollback(h)

SpecTtl == InitTtl /\ [][NextTtl]_vars

\* "expire:{e}:{id}"
IndexKey(e, id) ==
  <<101, 120, 112, 105, 114, 101, Colon>> \o e \o <<Colon>> \o id

\* the bytes of an id
IdBytes(id) == <<[t |-> "raw", v |-> id]>>

\* the update took the transaction t to t1, which holds the document doc at
\* (collection, id): with a string expiryAt in doc, t1 holds the index entry;
\* without, the update wrote the document only
IndexedWith(t, t1, collection, id, doc) ==
  IF get_deep(doc.v, ExpiryAt).t = "str"
    THEN TxnGet(t1, IndexKey(get_deep(doc.v, ExpiryAt).v, id)) = SomeBytes(IdBytes(id))
    ELSE DOMAIN t1.buf = (DOMAIN t.buf) \cup {key(collection, id)}

\* every key the transaction t put is in the store s with the bytes it put
AllVisible(t, s) ==
  \A k \in DOMAIN t.buf :
    ~t.buf[k].del => k \in DOMAIN s /\ s[k] = t.buf[k].bytes

\* C19: when update completes and the merged document has the top-level
\* string expiryAt = e, the same transaction holds the write
\* expire:{e}:{id} -> id; a commit makes the document and the index entry
\* visible together, a rollback or a failed commit neither; when expiryAt is
\* absent or no string the update writes no index key.
C19_TtlIndexAtomic ==
  [][/\ calls' = calls + 1 /\ last'.op = "update" /\ last'.kind = "ok" =>
          IndexedWith(tx[last'.h], tx'[last'.h], last'.coll, last'.id,
                      DocOf(tx'[last'.h]))
     /\ last'.op = "commit" /\ last'.kind = "ok" /\ tx[last'.h].st = "open" =>
          AllVisible(tx[last'.h], store')
     /\ \A h \in Handles :
          tx[h].st = "open" /\ tx'[h].st \in {"rolledback", "failed"} =>
            store' = store]_vars

\* C19's case: a handle set expiryAt to "t1" on users/u1 and committed; the
\* document and the entry expire:t1:u1 -> u1 are both stored.
C19_Witness ==
  /\ last.op = "commit" /\ last.kind = "ok"
  /\ tx[last.h].snap = EmptyMap
  /\ FreshGet(Users, U1) = Res("ok", JObj(ExpiryAt :> JStr(Expiry1)))
  /\ IndexKey(Expiry1, U1) \in DOMAIN store
  /\ store[IndexKey(Expiry1, U1)] = IdBytes(U1)

(* ------------- writes through a segment that is no object -------------- *)

\* this step is an update with a spec {p: v}, v a literal, inc, array_union or
\* array_remove, where a proper prefix of p holds a value that is no object
SetsThroughNonObject ==
  /\ UpdatesOnePath
  /\ ~IsRemove(EntryOf(last'.arg))
  /\ ~Writable(DocOf(tx[last'.h]), PathOf(last'.arg))

\* C20: a set (literal, inc, array_union or array_remove) whose path has an
\* intermediate segment that exists and is no object (a.b when a = 5) stops
\* without setting the value, surfaces no error and does not abort the
\* update, and the document is unchanged at that path.
C20_SilentNoOp ==
  [][SetsThroughNonObject =>
       /\ last'.kind = "ok"
       /\ tx'[last'.h].st = "open"
       /\ get_deep(DocOf(tx'[last'.h]).v, PathOf(last'.arg)) =
            get_deep(DocOf(tx[last'.h]).v, PathOf(last'.arg))]_vars

\* C20 without its claim of a normal return: the handle's document is the
\* same after such an update.
C20_DocumentUnchanged ==
  [][SetsThroughNonObject => DocOf(tx'[last'.h]) = DocOf(tx[last'.h])]_vars

(* ----------------- update of a document that is no object --------------- *)

\* this step is a call of update with an object spec by a handle whose
\* document at (collection, id) is stored and is no JSON object
UpdatesNonObjectDocument ==
  /\ calls' = calls + 1
  /\ last'.op = "update"
  /\ last'.arg.t = "obj"
  /\ get(tx[last'.h], last'.coll, last'.id).val.t \notin {"obj", "absent"}

\* C21: when the document stored at (collection, id) is no JSON object,
\* update with an object spec applies no field, returns normally without
\* aborting, and leaves the stored value as it was: the handle stays open and
\* reads the same document afterwards.
C21_NonObjectDocument ==
  [][UpdatesNonObjectDocument =>
       /\ last'.kind = "ok"
       /\ tx'[last'.h].st = "open"
       /\ get(tx'[last'.h], last'.coll, last'.id) = get(tx[last'.h], last'.coll, last'.id)
       /\ store' = store]_vars

\* C21 without the normal return: the merge applies no field, so the document
\* the handle reads is the one it read before the call.
C21_ValueUntouched ==
  [][UpdatesNonObjectDocument =>
       /\ get(tx'[last'.h], last'.coll, last'.id) = get(tx[last'.h], last'.coll, last'.id)
       /\ store' = store]_vars

(* ------------------ the order of the fields of an update ---------------- *)

\* the keys of json!({k1: v1, k2: v2, ..}) as the caller wrote them (the
\* keys of one spec differ)
WrittenKeys(written) == [i \in DOMAIN written |-> written[i][1]]

\* the Map that json!({k1: v1, k2: v2, ..}) builds from the written entries
MapOfWritten(written) ==
  [k \in {written[i][1] : i \in DOMAIN written}
     |-> written[CHOOSE i \in DOMAIN written : written[i][1] = k][2]]

\* for (k, v) in new_fields: a serde_json Map hands out its keys in
\* increasing order (BTreeMap, the default) or, built with preserve_order, in
\* the order of insertion (IndexMap)
FieldOrder(written, preserve_order) ==
  IF preserve_order THEN WrittenKeys(written) ELSE MapKeys(MapOfWritten(written))

\* the in-memory part of update for a spec written as an object literal
MergeWritten(data, written, preserve_order) ==
  IF data.t = "obj"
    THEN Merged(data, ApplyFields(data.v, MapOfWritten(written),
                                  FieldOrder(written, preserve_order)))
    ELSE [kind |-> "ok", data |-> data]

\* update with a written spec, after its read
UpdateWrittenLoaded(t, collection, id, written, preserve_order, got) ==
  IF got.kind # "ok" THEN [t |-> t, kind |-> got.kind, data |-> Absent]
  ELSE UpdateMerged(t, collection, id,
                    MergeWritten(IF got.val = Absent THEN JObj(EmptyMap) ELSE got.val,
                                 written, preserve_order))

\* TransactionHandle::update(collection, id, &json!({k1: v1, k2: v2, ..}))
update_written(t, collection, id, written, preserve_order) ==
  UpdateWrittenLoaded(t, collection, id, written, preserve_order, get(t, collection, id))

\* the paths of the written specs: "a" and "a.b" overlap
OrderPaths == {PathA, PathAB}

\* what a written spec gives for a path: 1, {"c": 2}, increment(5), remove
OrderEntries == {JInt(1), JObj(<<99>> :> JInt(2)), increment(5), remove}

\* the written specs: two entries on different paths, in both orders
WrittenSpecs ==
  { <<e1, e2>> : e1 \in OrderPaths \X OrderEntries, e2 \in OrderPaths \X OrderEntries }
  \ { w \in (OrderPaths \X OrderEntries) \X (OrderPaths \X OrderEntries) : w[1][1] = w[2][1] }

InitOrder ==
  /\ store \in MergeStores
  /\ tx = [h \in Handles |-> NoTxn]
  /\ last = NoCall
  /\ calls = 0
  /\ sum = [h \in Handles |-> 0]
  /\ fac = FacIdle
  /\ \E o \in BOOLEAN : pg = [PgIdle EXCEPT !.preserve_order = o]
  /\ pure = PureIdle

HandleUpdateWritten(h, collection, id, written) ==
  /\ CanCall(h)
  /\ UpdateReturns(h, collection, id, JObj(MapOfWritten(written)),
                   update_written(tx[h], collection, id, written, pg.preserve_order))
  /\ pure' = [PureIdle EXCEPT !.pc = "written", !.fields = written]
  /\ calls' = calls + 1
  /\ UNCHANGED <<store, fac, pg>>

NextOrder ==
  \/ \E h \in Handles : Begin(h)
  \/ \E h \in Handles, w \in WrittenSpecs : HandleUpdateWritten(h, Users, U1, w)
  \/ \E h \in Handles : HandleCommit(h)

SpecOrder == InitOrder /\ [][NextOrder]_vars

\* this step is an update of users/u1 with a written spec
UpdatesWritten ==
  calls' = calls + 1 /\ last'.op = "update" /\ pure'.pc = "written"

\* doc after the written entries are applied one after another, first to last
InCallerOrder(doc, written) ==
  Merged(doc, ApplyFields(doc.v, MapOfWritten(written), WrittenKeys(written)))

\* the update returned Ok and left the handle the document that applying the
\* entries in the order written gives, whenever that application goes through
AppliedInCallerOrder(before, after, kind, written) ==
  InCallerOrder(before, written).kind = "ok" =>
    kind = "ok" /\ after = InCallerOrder(before, written).data

\* C22: the fields of an update spec are applied one after another in the
\* order the caller wrote them, each seeing the document as left by the
\* previous one: for two entries on the overlapping paths "a" and "a.b", in
\* either order, the handle's document after the update is the one that
\* applying them in the caller's order gives.
C22_FieldOrder ==
  [][UpdatesWritten =>
       AppliedInCallerOrder(DocOf(tx[last'.h]), DocOf(tx'[last'.h]), last'.kind,
                            pure'.fields)]_vars

\* C22 on a build of serde_json with preserve_order: there the fields are
\* applied in the order written.
C22_WithPreserveOrder ==
  [][UpdatesWritten /\ pg.preserve_order =>
       AppliedInCallerOrder(DocOf(tx[last'.h]), DocOf(tx'[last'.h]), last'.kind,
                            pure'.fields)]_vars

\* C22 on specs written in increasing key order: there every build applies
\* the fields in the order written.
C22_OnAscendingSpecs ==
  [][UpdatesWritten /\ StrLess(pure'.fields[1][1], pure'.fields[2][1]) =>
       AppliedInCallerOrder(DocOf(tx[last'.h]), DocOf(tx'[last'.h]), last'.kind,
                            pure'.fields)]_vars

(* -------------------- scans and the other collections ------------------- *)

\* "users:u1:inbox", a collection nested under the document u1 of users
Inbox == Users \o <<Colon>> \o U1 \o <<Colon, 105, 110, 98, 111, 120>>
\* "v", a collection that sorts after users
Vault == <<118>>
\* "m1"
M1 == <<109, 49>>

\* the collections and the ids the callers address
ConfineCollections == {Users, Inbox, Vault}
ConfineIds == {U1, M1}

InitConfine ==
  /\ store = EmptyMap
  /\ tx = [h \in Handles |-> NoTxn]
  /\ last = NoCall
  /\ calls = 0
  /\ sum = [h \in Handles |-> 0]
  /\ fac = FacIdle
  /\ pg = PgIdle
  /\ pure = PureIdle

\* TransactionHandle::scan of transaction.rs on any collection: the returned
\* ids in the order of their insertion
HandleScanIn(h, collection, limit, cursor) ==
  /\ CanCall(h)
  /\ ~FetchOverflows(limit)
  /\ last' = Call(h, "scan", collection, cursor, limit, "ok",
                  scan(tx[h], collection, limit, cursor))
  /\ calls' = calls + 1
  /\ UNCHANGED <<store, tx, sum, fac, pg, pure>>

\* TransactionHandle::scan of lib.rs, the one the facade calls: the keys of
\* the returned mapping
HandleScanForward(h, collection, limit) ==
  /\ CanCall(h)
  /\ last' = Call(h, "scan_forward", collection, <<>>, limit, "ok",
                  MapKeys(scan_forward(tx[h], collection, limit).v))
  /\ calls' = calls + 1
  /\ UNCHANGED <<store, tx, sum, fac, pg, pure>>

NextConfine ==
  \/ \E h \in Handles : Begin(h)
  \/ \E h \in Handles, c \in ConfineCollections, i \in ConfineIds :
       HandleAdd(h, c, i, DocN(1))
  \/ \E h \in Handles, c \in ConfineCollections, i \in ConfineIds :
       HandleUpdate(h, c, i, JObj(FieldN :> increment(50)))
  \/ \E h \in Handles, c \in ConfineCollections, i \in ConfineIds :
       HandleDelete(h, c, i)
  \/ \E h \in Handles, c \in ConfineCollections, cursor \in {<<>>, U1} :
       HandleScanIn(h, c, U32Of(2), cursor)
  \/ \E h \in Handles, c \in ConfineCollections :
       HandleScanForward(h, c, U32Of(2))
  \/ \E h \in Handles : HandleCommit(h)

SpecConfine == InitConfine /\ [][NextConfine]_vars

\* the (collection, id) pairs under which a handle that began on an empty
\* store has stored a document and not deleted it since
LivePairs(t) == {p \in DOMAIN t.exp : t.exp[p] # Absent}

\* the last call is a scan by a handle that began on an empty store
ScannedOwnWrites(op) ==
  last.op = op /\ last.kind = "ok" /\ tx[last.h].snap = EmptyMap

\* every returned id is the id of a document stored under the scanned
\* collection
Confined ==
  \A i \in Range(last.val) : <<last.coll, i>> \in LivePairs(tx[last.h])

\* C23: scan is confined to its collection: after adds, updates and deletes
\* over users, the nested users:u1:inbox and a collection sorting after
\* users, a scan of a collection returns an entry for id i only if a document
\* was stored under exactly (collection, i) and not deleted, the returned keys
\* being bare ids.  Both scans are meant: the one with a cursor and the one
\* the facade calls.
C23_ScanConfined ==
  ScannedOwnWrites("scan") \/ ScannedOwnWrites("scan_forward") => Confined

\* no collection or id the handle wrote to holds the separator
NoSeparatorWritten(t) ==
  \A p \in DOMAIN t.exp : \A n \in {1, 2} : \A j \in DOMAIN p[n] : p[n][j] # Colon

\* C23 for the scan with a cursor, when no name the handle wrote to holds a
\* ':': there the scan is confined to its collection.
C23_OnPlainNames ==
  ScannedOwnWrites("scan") /\ NoSeparatorWritten(tx[last.h]) => Confined

(* ----------------------- increments at full width ----------------------- *)

\* ops::increment(amount) for any i64 amount
increment_i64(amount) ==
  JObj((OpKey :> JStr(OpInc)) @@ (AmountKey :> JI64(amount)))

\* the stored values of n: the ends of the i64 range, their neighbours, 0
\* and 100
WideCurrents ==
  { I64Max, I64Add(I64Max, I64Of(-1)), I64Min, I64Add(I64Min, I64Of(1)),
    I64Of(0), I64Of(100) }

\* the amounts of the increments
WideDeltas == {I64Of(1), I64Of(-1), I64Of(50), I64Max, I64Min}

\* a document {"n": current}, and the build: overflow checked or not
InitWide ==
  /\ \E current \in WideCurrents :
       store = (key(Users, U1) :> Encode(JObj(FieldN :> JI64(current))))
  /\ \E c \in BOOLEAN : pg = [PgIdle EXCEPT !.overflow_checks = c]
  /\ tx = [h \in Handles |-> NoTxn]
  /\ last = NoCall
  /\ calls = 0
  /\ sum = [h \in Handles |-> 0]
  /\ fac = FacIdle
  /\ pure = PureIdle

NextWide ==
  \/ \E h \in Handles : Begin(h)
  \/ \E h \in Handles, d \in WideDeltas :
       HandleUpdate(h, Users, U1, JObj(FieldN :> increment_i64(d)))
  \/ \E h \in Handles : HandleCommit(h)

SpecWide == InitWide /\ [][NextWide]_vars

\* this step is an update of users/u1 that increments n
IncrementsN ==
  /\ calls' = calls + 1
  /\ last'.op = "update"
  /\ last'.coll = Users /\ last'.id = U1
  /\ last'.arg.t = "obj" /\ DOMAIN last'.arg.v = {FieldN}

\* the i64 that n is in the handle's document
NOf(t) == AsI64(get_deep(DocOf(t).v, FieldN))

\* x with one more limb, which extends its sign: x as an 80-bit integer
Extended(x) == Append(x, IF I64Negative(x) THEN HalfMod - 1 ELSE 0)

\* current + delta as integers: on 80 bits the sum of two i64 does not wrap
MathSum(current, delta) == AddLimbs(Extended(current), Extended(delta), 1, 0)

\* the update returned Ok and n is now the sum of current and delta
StoresSum(current, delta, kind, after) ==
  /\ kind = "ok"
  /\ IsI64(get_deep(DocOf(after).v, FieldN))
  /\ Extended(NOf(after)) = MathSum(current, delta)

\* C24: increment never aborts and never wraps: for every stored i64 current
\* and every i64 delta, update with increment(delta) completes and stores the
\* mathematical sum current + delta, also when the sum lies outside the i64
\* range.
C24_IncrementNoOverflow ==
  [][IncrementsN =>
       StoresSum(NOf(tx[last'.h]), AsI64(last'.arg.v[FieldN].v[AmountKey]),
                 last'.kind, tx'[last'.h])]_vars

\* C24 when current + delta lies in the i64 range: there the update returns
\* Ok and stores the sum, on every build.
C24_WithinRange ==
  [][IncrementsN /\ ~I64AddOverflows(NOf(tx[last'.h]),
                                     AsI64(last'.arg.v[FieldN].v[AmountKey])) =>
       StoresSum(NOf(tx[last'.h]), AsI64(last'.arg.v[FieldN].v[AmountKey]),
                 last'.kind, tx'[last'.h])]_vars

\* outside the i64 range a build with overflow checks aborts the update and
\* a build without stores the sum wrapped around
C24_PanicsOrWraps ==
  [][IncrementsN /\ I64AddOverflows(NOf(tx[last'.h]),
                                    AsI64(last'.arg.v[FieldN].v[AmountKey])) =>
       IF pg.overflow_checks
         THEN last'.kind = "panic" /\ tx'[last'.h].buf = tx[last'.h].buf
         ELSE /\ last'.kind = "ok"
              /\ NOf(tx'[last'.h]) = I64Add(NOf(tx[last'.h]),
                                            AsI64(last'.arg.v[FieldN].v[AmountKey]))]_vars

====
